---- MODULE Spec2Model ----
(***************************************************************************)
(* A model of terraform/tf_out_to_md.py: the Terraform plan JSON to        *)
(* Markdown converter.                                                     *)
(*                                                                         *)
(* JSON values are tagged records [t, v]; a Python dict is a function from *)
(* a finite set of key strings, a Python str is a sequence of one-letter   *)
(* strings.  A Markdown line is a sequence of tokens: the literal pieces   *)
(* of the f-strings of the source, and the letters of the values put in    *)
(* them.  The backtick of the source is the token BT, and the emoji        *)
(* labels are written in ASCII.                                            *)
(***************************************************************************)
EXTENDS Integers, Sequences, FiniteSets, TLC

VARIABLES
    pc,               \* position of the run
    plan_data,        \* the plan document: plan_data of main
    idx,              \* position of the loop the run is in
    action_counts,    \* convert_plan_to_markdown: action_counts
    counted,          \* per resource counted so far, the bucket that was incremented
    listed,           \* per action type, its resources_for_action (indexes)
    md_lines,         \* convert_plan_to_markdown: md_lines
    tag_changes,      \* extract_all_tag_changes: tag_changes
    result,           \* extract_all_tag_changes: result
    lines,            \* parse_terraform_json_lines: the lines of the file
    planned_changes,  \* parse_terraform_json_lines: planned_changes
    args,             \* format_value, format_change: the arguments of the call
    returned,         \* format_value, format_change: what the call returned
    argv,             \* main: the two paths of the command line
    json_format,      \* main: json_format
    exit_code,        \* main: the exit code of the process, once it has ended
    output_file,      \* main: what the output path holds
    stdout            \* main: the encoding of the standard output

\* the state of a call of a formatter, and of the process around main
call == <<args, returned>>
process == <<argv, json_format, exit_code, output_file, stdout>>

vars == <<pc, plan_data, idx, action_counts, counted, listed, md_lines,
          tag_changes, result, lines, planned_changes, call, process>>

-----------------------------------------------------------------------------
(* Bounds of the model *)

MaxResources == 2     \* resource changes of a rendered document
MaxTagRecords == 3    \* resource changes of a document of tag updates
MaxLines == 3         \* lines of a line-oriented input

-----------------------------------------------------------------------------
(* JSON values *)

None == [t |-> "null", v |-> 0]
Str(s) == [t |-> "str", v |-> s]
Bool(b) == [t |-> "bool", v |-> b]
Num(n) == [t |-> "num", v |-> n]
List(s) == [t |-> "list", v |-> s]
Dict(f) == [t |-> "dict", v |-> f]
EmptyMap == [k \in {} |-> None]

IsDict(x) == x.t = "dict"
IsList(x) == x.t = "list"

\* Python truthiness of a value, as in `if not value`, `if before_tags`
Truthy(x) ==
    CASE x.t = "null" -> FALSE
      [] x.t = "bool" -> x.v
      [] x.t = "num"  -> x.v # 0
      [] x.t = "str"  -> Len(x.v) > 0
      [] x.t = "list" -> Len(x.v) > 0
      [] x.t = "dict" -> DOMAIN x.v # {}

\* before == after of Python: a bool is the number 1 or 0
NumOf(x) == IF x.t = "bool" THEN (IF x.v THEN 1 ELSE 0) ELSE x.v
RECURSIVE PyEq(_, _)
PyEq(a, b) ==
    IF a.t \in {"bool", "num"} /\ b.t \in {"bool", "num"} THEN NumOf(a) = NumOf(b)
    ELSE IF a.t # b.t THEN FALSE
    ELSE IF a.t = "list"
         THEN /\ Len(a.v) = Len(b.v)
              /\ \A i \in 1..Len(a.v) : PyEq(a.v[i], b.v[i])
    ELSE IF a.t = "dict"
         THEN /\ DOMAIN a.v = DOMAIN b.v
              /\ \A k \in DOMAIN a.v : PyEq(a.v[k], b.v[k])
    ELSE a.v = b.v

\* d.get(key) on a dict value d: None when the key is missing
Get(d, key) == IF key \in DOMAIN d.v THEN d.v[key] ELSE None

\* m.get(key) on a mapping of flags (before_sensitive, after_unknown, ...)
Flag(m, key) == IF key \in DOMAIN m THEN m[key] ELSE FALSE

-----------------------------------------------------------------------------
(* Text *)

BT == "[bt]"
JoinComma == <<",", " ">>

\* str.strip() on a token sequence: drops the blanks at both ends
RECURSIVE LStrip(_)
LStrip(s) == IF s # <<>> /\ Head(s) = " " THEN LStrip(Tail(s)) ELSE s
RECURSIVE RStrip(_)
RStrip(s) ==
    IF s # <<>> /\ s[Len(s)] = " " THEN RStrip(SubSeq(s, 1, Len(s) - 1)) ELSE s
Strip(s) == RStrip(LStrip(s))

RECURSIVE Join(_, _)
Join(parts, sep) ==
    IF parts = <<>> THEN <<>>
    ELSE IF Len(parts) = 1 THEN parts[1]
    ELSE parts[1] \o sep \o Join(Tail(parts), sep)

\* the fixed order of the key strings of the model: sorted() on str keys
KeyOrder == <<"Env", "Name", "id", "name", "password", "tags", "tags_all">>
Rank(k) == CHOOSE i \in 1..Len(KeyOrder) : KeyOrder[i] = k

\* sorted(keys)
RECURSIVE Sorted(_)
Sorted(S) ==
    IF S = {} THEN <<>>
    ELSE LET m == CHOOSE k \in S : \A o \in S : Rank(k) <= Rank(o)
         IN <<m>> \o Sorted(S \ {m})

-----------------------------------------------------------------------------
(* get_action_emoji *)

get_action_emoji(actions) ==
    IF "create" \in actions THEN "CREATE"
    ELSE IF "delete" \in actions THEN "DELETE"
    ELSE IF "update" \in actions THEN "UPDATE"
    ELSE IF "replace" \in actions \/ ("delete" \in actions /\ "create" \in actions)
         THEN "REPLACE"
    ELSE IF "read" \in actions THEN "READ"
    ELSE "NO-OP"

-----------------------------------------------------------------------------
(* format_value, with indent = 0 *)

StrLimit == 100

\* StrKeep that keeps as many characters as the limit allows
StrKeepAll == StrLimit
StrKeep == 97

\* ListLimit of a test len(value) >= 5
ListLimitInclusive == 5 - 1
ListLimit == 5

RECURSIVE format_value(_)
format_value(value) ==
    CASE value.t = "null" -> <<>>
      [] value.t = "bool" -> <<BT, IF value.v THEN "true" ELSE "false", BT>>
      [] value.t = "num"  -> <<BT, ToString(value.v), BT>>
      [] value.t = "str"  ->
            IF Len(value.v) = 0 THEN <<>>
            ELSE IF Len(value.v) > StrLimit
                 THEN <<BT>> \o SubSeq(value.v, 1, StrKeep) \o <<".", ".", ".", BT>>
            ELSE <<BT>> \o value.v \o <<BT>>
      [] value.t = "list" ->
            IF Len(value.v) = 0 THEN <<>>
            ELSE IF Len(value.v) > ListLimit
                 THEN <<"List with ", ToString(Len(value.v)), " items">>
            ELSE Join([i \in 1..Len(value.v) |-> Strip(format_value(value.v[i]))],
                      JoinComma)
      [] value.t = "dict" ->
            IF DOMAIN value.v = {} THEN <<>>
            ELSE <<"Object with ", ToString(Cardinality(DOMAIN value.v)),
                   " properties">>

-----------------------------------------------------------------------------
(* format_change, with indent = 1 as process_change calls it *)

Absent(x) == x.t = "null" \/ (x.t \in {"list", "dict"} /\ ~Truthy(x))

\* format_change without the test that the formatted values are non-empty
format_change_unsuppressed(before, after, key) ==
    IF Absent(after) \/ PyEq(before, after) THEN <<>>
    ELSE IF Absent(before)
    THEN << <<"  - **", key, "**: ">> \o Strip(format_value(after)) >>
    ELSE << <<"  - **", key, "**: ~~">> \o Strip(format_value(before))
            \o <<"~~ -> ">> \o Strip(format_value(after)) >>

format_change(before, after, key) ==
    IF Absent(before) /\ Absent(after) THEN <<>>
    ELSE IF Absent(after) THEN <<>>
    ELSE IF Absent(before) THEN
        LET after_str == Strip(format_value(after))
        IN  IF after_str # <<>>
            THEN << <<"  - **", key, "**: ">> \o after_str >>
            ELSE <<>>
    ELSE IF ~PyEq(before, after) THEN
        LET before_str == Strip(format_value(before))
            after_str == Strip(format_value(after))
        IN  IF before_str # <<>> /\ after_str # <<>>
            THEN << <<"  - **", key, "**: ~~">> \o before_str \o <<"~~ -> ">>
                    \o after_str >>
            ELSE IF (before_str # <<>> \/ after_str # <<>>) /\ after_str # <<>>
            THEN << <<"  - **", key, "**: ">> \o after_str >>
            ELSE <<>>
    ELSE <<>>

SensitiveLine(key) == <<"  - **", key, "**: ", BT, "(sensitive value)", BT>>

-----------------------------------------------------------------------------
(* process_change *)

DictKeys(x) == IF IsDict(x) THEN DOMAIN x.v ELSE {}
DictGet(x, key) == IF IsDict(x) THEN Get(x, key) ELSE None

RECURSIVE ChangeLines(_, _)
ChangeLines(change, keys) ==
    IF keys = <<>> THEN <<>>
    ELSE LET key == Head(keys)
             before_val == DictGet(change.before, key)
             after_val == DictGet(change.after, key)
             is_sensitive == Flag(change.before_sensitive, key)
                             \/ Flag(change.after_sensitive, key)
             here == IF PyEq(before_val, after_val) THEN <<>>
                     ELSE IF is_sensitive THEN <<SensitiveLine(key)>>
                     ELSE format_change(before_val, after_val, key)
         IN here \o ChangeLines(change, Tail(keys))

process_change(change) ==
    ChangeLines(change, Sorted(DictKeys(change.before) \cup DictKeys(change.after)))

-----------------------------------------------------------------------------
(* extract_all_tag_changes *)

\* str(value) as an f-string interpolates it
PyStr(x) ==
    CASE x.t = "null" -> <<"N", "o", "n", "e">>
      [] x.t = "str"  -> x.v
      [] x.t = "bool" -> IF x.v THEN <<"T", "r", "u", "e">>
                         ELSE <<"F", "a", "l", "s", "e">>
      [] x.t = "num"  -> <<ToString(x.v)>>

Arrow == "->"
ChangeKey(before_val, after_val) == PyStr(before_val) \o <<Arrow>> \o PyStr(after_val)

\* d.get(field, {}) on the before / after mapping of a change
GetOrEmpty(d, field) == IF field \in DOMAIN d.v THEN d.v[field] ELSE Dict(EmptyMap)

\* lines 167-177: count one changed tag in the groupings of its key
AddChange(changes, before_val, after_val) ==
    LET change_key == ChangeKey(before_val, after_val)
        hit == {i \in 1..Len(changes) : changes[i].key = change_key}
    IN  IF hit = {}
        THEN Append(changes, [key |-> change_key, before |-> before_val,
                              after |-> after_val, count |-> 1])
        ELSE [i \in 1..Len(changes) |->
                 IF i \in hit THEN [changes[i] EXCEPT !.count = @ + 1]
                 ELSE changes[i]]

\* lines 155-177: the changed tags of one tag field, added to tc
AddField(tc, before_tags, after_tags) ==
    IF IsDict(before_tags) /\ IsDict(after_tags)
    THEN LET all_tag_keys == DOMAIN before_tags.v \cup DOMAIN after_tags.v
             changed == {k \in all_tag_keys : Get(before_tags, k) # Get(after_tags, k)}
         IN  [k \in DOMAIN tc \cup changed |->
                 IF k \in changed
                 THEN AddChange(IF k \in DOMAIN tc THEN tc[k]
                                ELSE <<>>,
                                Get(before_tags, k), Get(after_tags, k))
                 ELSE tc[k]]
    ELSE tc

\* StopAfterTags that never breaks: tags_all is always read too
NeverStopAfterTags(before_tags, after_tags) == FALSE

\* lines 179-181: the break after the tags field
StopAfterTags(before_tags, after_tags) ==
    IsDict(before_tags) /\ IsDict(after_tags) /\ Truthy(before_tags)

\* lines 145-181: one tags-only resource
AddResource(tc, rc) ==
    LET t1 == AddField(tc, GetOrEmpty(rc.before, "tags"),
                       GetOrEmpty(rc.after, "tags"))
    IN  IF StopAfterTags(GetOrEmpty(rc.before, "tags"), GetOrEmpty(rc.after, "tags"))
        THEN t1
        ELSE AddField(t1, GetOrEmpty(rc.before, "tags_all"),
                      GetOrEmpty(rc.after, "tags_all"))

\* lines 135-137
TagsOnlyResources(resource_changes) ==
    SelectSeq(resource_changes, LAMBDA rc : rc.tags_only)

RECURSIVE AddResources(_, _)
AddResources(tc, rcs) ==
    IF rcs = <<>> THEN tc
    ELSE AddResources(AddResource(tc, Head(rcs)), Tail(rcs))

\* lines 183-210
Flatten(tc, total_resources) ==
    [tag_key \in DOMAIN tc |->
        LET changes == tc[tag_key]
        IN  IF Len(changes) = 1
            THEN IF changes[1].count = total_resources
                 THEN [before |-> changes[1].before, after |-> changes[1].after,
                       count |-> total_resources, is_common |-> TRUE,
                       changes |-> <<>>, multiple |-> FALSE]
                 ELSE [before |-> changes[1].before, after |-> changes[1].after,
                       count |-> changes[1].count, is_common |-> FALSE,
                       changes |-> <<>>, multiple |-> FALSE]
            ELSE [before |-> None, after |-> None, count |-> 0,
                  is_common |-> FALSE, changes |-> changes, multiple |-> TRUE]]

extract_all_tag_changes(resource_changes) ==
    LET tags_only_resources == TagsOnlyResources(resource_changes)
    IN  IF tags_only_resources = <<>> THEN EmptyMap
        ELSE Flatten(AddResources(EmptyMap, tags_only_resources),
                     Len(tags_only_resources))

-----------------------------------------------------------------------------
(* convert_plan_to_markdown: counting and grouping *)

Buckets == {"create", "delete", "update", "update_tags_only", "replace", "read",
            "no-op"}

\* Bucket with the create test put first
BucketCreateFirst(actions, tags_only) ==
    IF "create" \in actions THEN "create"
    ELSE IF "create" \in actions /\ "delete" \in actions THEN "replace"
    ELSE IF "delete" \in actions THEN "delete"
    ELSE IF "update" \in actions
         THEN IF tags_only THEN "update_tags_only" ELSE "update"
    ELSE IF "read" \in actions THEN "read"
    ELSE "no-op"

\* lines 282-296: the bucket a resource is counted in
Bucket(actions, tags_only) ==
    IF "create" \in actions /\ "delete" \in actions THEN "replace"
    ELSE IF "create" \in actions THEN "create"
    ELSE IF "delete" \in actions THEN "delete"
    ELSE IF "update" \in actions
         THEN IF tags_only THEN "update_tags_only" ELSE "update"
    ELSE IF "read" \in actions THEN "read"
    ELSE "no-op"

ZeroCounts == [b \in Buckets |-> 0]

\* one pass of the loop of lines 278-296
CountOne(counts, rc) ==
    [counts EXCEPT ![Bucket(rc.actions, rc.tags_only)] = @ + 1]

RECURSIVE CountAll(_, _)
CountAll(counts, rcs) ==
    IF rcs = <<>> THEN counts ELSE CountAll(CountOne(counts, Head(rcs)), Tail(rcs))

ActionTypes == <<"create", "update", "replace", "delete">>

\* lines 393-400: is the resource appended to resources_for_action
InSection(action_type, rc) ==
    IF action_type = "replace" /\ "create" \in rc.actions /\ "delete" \in rc.actions
    THEN TRUE
    ELSE IF action_type = "create" /\ "create" \in rc.actions
            /\ "delete" \notin rc.actions
    THEN TRUE
    ELSE IF action_type = "delete" /\ "delete" \in rc.actions
            /\ "create" \notin rc.actions
    THEN TRUE
    ELSE action_type = "update" /\ "update" \in rc.actions /\ ~rc.tags_only

\* the indexes of resource_changes appended to resources_for_action, in order
ResourcesForAction(action_type, rcs) ==
    SelectSeq([i \in 1..Len(rcs) |-> i], LAMBDA i : InSection(action_type, rcs[i]))

-----------------------------------------------------------------------------
(* convert_plan_to_markdown: the lines *)

Blank == <<>>
Footer == <<"*Generated from Terraform plan JSON output*">>
DeleteLimit == 10

\* lines 226-252: an error is its diagnostic: summary, address ("" for none),
\* and the code, filename and start line of its snippet (code "" for none)
RECURSIVE ErrorLines(_)
ErrorLines(errors) ==
    IF errors = <<>> THEN <<>>
    ELSE LET e == Head(errors)
         IN  << IF e.address # "" THEN <<"### Error in ", BT, e.address, BT>>
                ELSE <<"### General Error">>,
                Blank, <<"**Summary**: ", e.summary>>, Blank >>
             \o (IF e.code # ""
                 THEN << <<"[fence]terraform">>,
                         <<"# File: ", e.filename, ":", e.start_line>>,
                         <<e.code>>, <<"[fence]">> >>
                 ELSE <<>>)
             \o << <<"---">> >> \o ErrorLines(Tail(errors))

\* lines 218-258
HeadLines(doc) ==
    << <<"# Terraform Summary">>, Blank >>
    \o (IF doc.errors # <<>>
        THEN << <<"## Terraform Errors">>, Blank >> \o ErrorLines(doc.errors)
             \o <<Blank>>
        ELSE <<>>)
    \o (IF doc.has_version
        THEN << <<"**Terraform Version**: ", BT, doc.terraform_version, BT>>, Blank >>
        ELSE <<>>)

\* lines 299-309
SummaryLines(counts) ==
    << <<"## Summary">>, Blank,
       <<"- **Create**: ", ToString(counts["create"]), " resource(s)">>,
       <<"- **Update**: ", ToString(counts["update"]), " resource(s)">> >>
    \o (IF counts["update_tags_only"] > 0
        THEN << <<"- **Update (tags only)**: ",
                  ToString(counts["update_tags_only"]), " resource(s)">> >>
        ELSE <<>>)
    \o << <<"- **Replace**: ", ToString(counts["replace"]), " resource(s)">>,
          <<"- **Delete**: ", ToString(counts["delete"]), " resource(s)">> >>
    \o (IF counts["read"] > 0
        THEN << <<"- **Read**: ", ToString(counts["read"]), " resource(s)">> >>
        ELSE <<>>)
    \o <<Blank>>

\* the three shapes of a tag change, lines 339-344 and 360-365, 372-377
TagChangeText(before_val, after_val) ==
    IF before_val = None /\ after_val # None
    THEN <<"(new) -> ", BT>> \o PyStr(after_val) \o <<BT>>
    ELSE IF before_val # None /\ after_val = None
    THEN <<BT>> \o PyStr(before_val) \o <<BT, " -> (removed)">>
    ELSE <<BT>> \o PyStr(before_val) \o <<BT, " -> ", BT>> \o PyStr(after_val)
         \o <<BT>>

RECURSIVE GroupingLines(_)
GroupingLines(changes) ==
    IF changes = <<>> THEN <<>>
    ELSE << <<"  - ">> \o TagChangeText(Head(changes).before, Head(changes).after)
            \o <<" (", ToString(Head(changes).count), " resource(s))">> >>
         \o GroupingLines(Tail(changes))

RECURSIVE CommonTagLines(_, _)
CommonTagLines(all, keys) ==
    IF keys = <<>> THEN <<>>
    ELSE << <<"- **", Head(keys), "**: ">>
            \o TagChangeText(all[Head(keys)].before, all[Head(keys)].after) >>
         \o CommonTagLines(all, Tail(keys))

RECURSIVE VariedTagLines(_, _, _)
VariedTagLines(all, keys, n) ==
    IF keys = <<>> THEN <<>>
    ELSE LET info == all[Head(keys)]
         IN (IF info.multiple
             THEN << <<"- **", Head(keys), "**: Multiple values">> >>
                  \o GroupingLines(info.changes)
             ELSE << <<"- **", Head(keys), "**: ">>
                     \o TagChangeText(info.before, info.after)
                     \o <<" (", ToString(info.count), "/", ToString(n),
                          " resource(s))">> >>)
            \o VariedTagLines(all, Tail(keys), n)

\* lines 312-379
TagSummaryLines(rcs, counts) ==
    IF counts["update_tags_only"] > 0
    THEN LET all == extract_all_tag_changes(rcs)
             common == Sorted({k \in DOMAIN all : all[k].is_common})
             varied == Sorted({k \in DOMAIN all : ~all[k].is_common})
         IN  IF DOMAIN all # {}
             THEN << <<"### Tag Changes Summary">>, Blank,
                     <<"Tags being updated across ",
                       ToString(counts["update_tags_only"]), " resource(s):">>,
                     Blank >>
                  \o (IF common # <<>>
                      THEN << <<"#### Common to all resources:">>, Blank >>
                           \o CommonTagLines(all, common) \o <<Blank>>
                      ELSE <<>>)
                  \o (IF varied # <<>>
                      THEN << <<"#### Varies by resource:">>, Blank >>
                           \o VariedTagLines(all, varied, counts["update_tags_only"])
                           \o <<Blank>>
                      ELSE <<>>)
             ELSE <<>>
    ELSE <<>>

\* ForceReplaceAttrs that takes the last segment of a path, path[-1]
ForceReplaceLast(replace_paths) ==
    {replace_paths[i][Len(replace_paths[i])] :
        i \in {j \in 1..Len(replace_paths) : Len(replace_paths[j]) > 0}}

\* lines 436-447: the attributes forcing replacement
ForceReplaceAttrs(replace_paths) ==
    {replace_paths[i][1] : i \in {j \in 1..Len(replace_paths) :
                                      Len(replace_paths[j]) > 0}}

RECURSIVE AttrLines(_)
AttrLines(attrs) ==
    IF attrs = <<>> THEN <<>>
    ELSE << <<"  - ", BT, Head(attrs), BT>> >> \o AttrLines(Tail(attrs))

\* lines 453-460 and 472-479: the configuration of a created resource
RECURSIVE ConfigLines(_, _)
ConfigLines(rc, keys) ==
    IF keys = <<>> THEN <<>>
    ELSE LET key == Head(keys)
             formatted == Strip(format_value(rc.after.v[key]))
         IN (IF Flag(rc.after_sensitive, key) THEN <<SensitiveLine(key)>>
             ELSE IF formatted # <<>>
             THEN << <<"  - **", key, "**: ">> \o formatted >>
             ELSE <<>>)
            \o ConfigLines(rc, Tail(keys))

\* lines 450-465 and 469-484
ConfigurationBlock(rc) ==
    IF Truthy(rc.after) /\ IsDict(rc.after)
    THEN LET config_lines == ConfigLines(rc, Sorted(DOMAIN rc.after.v))
         IN  IF config_lines # <<>>
             THEN << <<"**Configuration**:">>, Blank >> \o config_lines \o <<Blank>>
             ELSE <<>>
    ELSE <<>>

\* action_reason.replace("_", " ").title()
TitleOf(action_reason) ==
    CASE action_reason = "delete_because_no_resource_config"
             -> "Delete Because No Resource Config"
      [] action_reason = "replace_because_tainted" -> "Replace Because Tainted"
      [] OTHER -> action_reason

\* lines 497-502
ReasonLines(rc) ==
    IF rc.action_reason # ""
    THEN << <<"**Reason**: ", TitleOf(rc.action_reason)>>, Blank >>
    ELSE <<>>

\* lines 508-512: the attributes of a deleted resource
RECURSIVE DeleteLines(_, _)
DeleteLines(rc, keys) ==
    IF keys = <<>> THEN <<>>
    ELSE LET key == Head(keys)
             formatted == Strip(format_value(rc.before.v[key]))
         IN (IF formatted # <<>>
             THEN << <<"  - **", key, "**: ">> \o formatted >>
             ELSE <<>>)
            \o DeleteLines(rc, Tail(keys))

FirstN(s, n) == SubSeq(s, 1, IF Len(s) < n THEN Len(s) ELSE n)

\* lines 505-517
DeletedBlock(rc) ==
    IF Truthy(rc.before) /\ IsDict(rc.before)
    THEN LET delete_lines ==
                 DeleteLines(rc, FirstN(Sorted(DOMAIN rc.before.v), DeleteLimit))
         IN  IF delete_lines # <<>>
             THEN << <<"**Resource being deleted**:">>, Blank >> \o delete_lines
                  \o <<Blank>>
             ELSE <<>>
    ELSE <<>>

\* lines 413-528: one resource of a section
ResourceLines(rc, action_type) ==
    << <<"#### ", BT, rc.address, BT>>, Blank,
       <<"**Type**: ", BT, rc.type, BT>>, Blank >>
    \o (CASE action_type = "replace" ->
                (LET attrs == Sorted(ForceReplaceAttrs(rc.replace_paths))
                 IN  IF attrs # <<>>
                     THEN << <<"**Attributes forcing replacement**:">>, Blank >>
                          \o AttrLines(attrs) \o <<Blank>>
                     ELSE <<>>)
                \o ConfigurationBlock(rc)
          [] action_type = "create" -> ConfigurationBlock(rc)
          [] action_type = "update" ->
                (LET change_lines == process_change(rc)
                 IN  IF change_lines # <<>>
                     THEN << <<"**Changes**:">>, Blank >> \o change_lines
                          \o <<Blank>>
                     ELSE <<>>)
          [] action_type = "delete" -> ReasonLines(rc) \o DeletedBlock(rc))
    \o << <<"---">>, Blank >>

SectionTitle(action_type) ==
    CASE action_type = "create" -> "### Resources to Create"
      [] action_type = "update" -> "### Resources to Update"
      [] action_type = "replace" -> "### Resources to Replace"
      [] action_type = "delete" -> "### Resources to Delete"

RECURSIVE ResourcesLines(_, _, _)
ResourcesLines(rcs, ixs, action_type) ==
    IF ixs = <<>> THEN <<>>
    ELSE ResourceLines(rcs[Head(ixs)], action_type)
         \o ResourcesLines(rcs, Tail(ixs), action_type)

\* lines 386-528: one pass of the loop over the action types
SectionLines(rcs, action_type) ==
    LET resources_for_action == ResourcesForAction(action_type, rcs)
    IN  IF resources_for_action # <<>>
        THEN << <<SectionTitle(action_type)>>, Blank >>
             \o ResourcesLines(rcs, resources_for_action, action_type)
        ELSE <<>>

\* lines 536-555: one output change
OutputLines(output_name, output_change) ==
    << <<"### ", get_action_emoji(output_change.actions), " ", BT, output_name, BT>>,
       Blank >>
    \o (IF output_change.sensitive THEN << <<"Value: ", BT, "(sensitive)", BT>> >>
        ELSE IF output_change.before = None /\ output_change.after # None
        THEN << <<"Value: ">> \o Strip(format_value(output_change.after)) >>
        ELSE IF ~PyEq(output_change.before, output_change.after)
        THEN << <<"Before: ">> \o Strip(format_value(output_change.before)),
                <<"After: ">> \o Strip(format_value(output_change.after)) >>
        ELSE <<>>)
    \o <<Blank>>

RECURSIVE OutputsLines(_)
OutputsLines(items) ==
    IF items = <<>> THEN <<>>
    ELSE OutputLines(Head(items)[1], Head(items)[2]) \o OutputsLines(Tail(items))

\* lines 531-555: output_changes is the sequence of its items, in insertion order
OutputSection(output_changes) ==
    IF output_changes # <<>>
    THEN << <<"## Output Changes">>, Blank >> \o OutputsLines(output_changes)
    ELSE <<>>

\* lines 263-265
NoChangesLine == <<"No resource changes detected.">>

\* the whole of convert_plan_to_markdown, as the list md_lines it joins
convert_plan_to_markdown(doc) ==
    IF doc.resource_changes = <<>>
    THEN HeadLines(doc) \o <<NoChangesLine>>
    ELSE LET counts == CountAll(ZeroCounts, doc.resource_changes)
         IN  HeadLines(doc) \o SummaryLines(counts)
             \o TagSummaryLines(doc.resource_changes, counts)
             \o << <<"## Detailed Changes">>, Blank >>
             \o SectionLines(doc.resource_changes, "create")
             \o SectionLines(doc.resource_changes, "update")
             \o SectionLines(doc.resource_changes, "replace")
             \o SectionLines(doc.resource_changes, "delete")
             \o OutputSection(doc.output_changes)
             \o <<Footer>>

-----------------------------------------------------------------------------
(* parse_terraform_show_json *)

TagFields == {"tags", "tags_all"}

\* ChangedAttrs with the unknown attributes compared like the others
ChangedAttrsUnknownToo(rc) ==
    {key \in DOMAIN rc.before.v \cup DOMAIN rc.after.v :
        Get(rc.before, key) # Get(rc.after, key)}

\* lines 686-699: the changed attributes, the unknown ones skipped
ChangedAttrs(rc) ==
    {key \in DOMAIN rc.before.v \cup DOMAIN rc.after.v :
        /\ ~Flag(rc.after_unknown, key)
        /\ Get(rc.before, key) # Get(rc.after, key)}

\* lines 679-709: the value of rc["tags_only"]
TagsOnly(rc) ==
    IF "update" \in rc.actions /\ "create" \notin rc.actions
       /\ "delete" \notin rc.actions
    THEN IF IsDict(rc.before) /\ IsDict(rc.after)
         THEN ChangedAttrs(rc) # {} /\ ChangedAttrs(rc) \subseteq TagFields
         ELSE FALSE
    ELSE FALSE

\* lines 674-709: every resource change gets its tags_only
MarkTagsOnly(rcs) ==
    [i \in 1..Len(rcs) |->
        [f \in DOMAIN rcs[i] \cup {"tags_only"} |->
            IF f = "tags_only" THEN TagsOnly(rcs[i]) ELSE rcs[i][f]]]

parse_terraform_show_json(data) ==
    [data EXCEPT !.resource_changes = MarkTagsOnly(data.resource_changes)]

-----------------------------------------------------------------------------
(* parse_terraform_json_lines *)

\* lines 638-653: the record of a planned_change event
ResourceChange(event) ==
    [address |-> event.addr, type |-> event.resource_type,
     actions |-> {event.action},
     before |-> Dict(EmptyMap), after |-> Dict(EmptyMap),
     after_unknown |-> EmptyMap, before_sensitive |-> EmptyMap,
     after_sensitive |-> EmptyMap, replace_paths |-> <<>>,
     action_reason |-> event.reason, tags_only |-> FALSE]

\* Store on a list instead of a dict: every record is appended
StoreAppend(changes, rc) == Append(changes, rc)

\* line 655: planned_changes[addr] = resource_change, on a dict that keeps the
\* position of a key it already holds
Store(changes, rc) ==
    IF \E i \in 1..Len(changes) : changes[i].address = rc.address
    THEN [i \in 1..Len(changes) |->
             IF changes[i].address = rc.address THEN rc ELSE changes[i]]
    ELSE Append(changes, rc)

-----------------------------------------------------------------------------
(* The documents of the model *)

Actions == {"create", "update", "delete", "read"}
ActionSets == SUBSET Actions \cup {{"no-op"}}

Letters(s) == Str(<<s>>)
TagMap(v) == Dict([k \in {"Name"} |-> Letters(v)])
NoTags == Dict(EmptyMap)
Attrs(f) == Dict(f)

\* a resource change as the full document gives it (no tags_only yet)
RawChange(address, actions, before, after, sens_before, sens_after, unknown) ==
    [address |-> address, type |-> "aws_instance", actions |-> actions,
     before |-> before, after |-> after,
     before_sensitive |-> sens_before, after_sensitive |-> sens_after,
     after_unknown |-> unknown,
     replace_paths |-> IF {"create", "delete"} \subseteq actions
                       THEN << <<"name">>, <<>> >> ELSE <<>>,
     action_reason |-> IF actions = {"delete"}
                       THEN "delete_because_no_resource_config" ELSE ""]

Document(resource_changes, output_changes) ==
    [errors |-> <<>>, has_version |-> TRUE, terraform_version |-> "1.5.0",
     resource_changes |-> resource_changes, output_changes |-> output_changes]

Address(i) == IF i = 1 THEN "aws_instance.a"
              ELSE IF i = 2 THEN "aws_instance.b"
              ELSE IF i = 3 THEN "aws_instance.c"
              ELSE IF i = 4 THEN "aws_instance.d" ELSE "aws_instance.e"

\* resource changes of every action set, with a changed name or a changed tag
ChangeKinds ==
    {<<a, "name">> : a \in ActionSets} \cup
    {<<a, "tag">> : a \in {x \in ActionSets : "update" \in x}}

KindChange(i, kind) ==
    IF kind[2] = "name"
    THEN RawChange(Address(i), kind[1],
                   Attrs([k \in {"name"} |-> Letters("x")]),
                   Attrs([k \in {"name"} |-> Letters("y")]),
                   EmptyMap, EmptyMap, EmptyMap)
    ELSE RawChange(Address(i), kind[1],
                   Attrs([k \in {"name", "tags"} |->
                            IF k = "name" THEN Letters("x") ELSE TagMap("a")]),
                   Attrs([k \in {"name", "tags"} |->
                            IF k = "name" THEN Letters("x") ELSE TagMap("b")]),
                   EmptyMap, EmptyMap, EmptyMap)

ResourceDocs ==
    {Document([i \in 1..n |-> KindChange(i, ks[i])], <<>>) :
        n \in 0..MaxResources, ks \in [1..MaxResources -> ChangeKinds]}

\* documents with one output change, with and without a resource change
OutValues == {None, Letters("p"), Letters("q")}
OutputChanges ==
    [actions : ActionSets, sensitive : BOOLEAN, before : OutValues,
     after : {None, Letters("p")}]

OutputDocs ==
    {Document(IF with THEN <<KindChange(1, <<{"create"}, "name">>)>> ELSE <<>>,
              << <<"endpoint", oc>> >>) :
        with \in BOOLEAN, oc \in OutputChanges}

\* documents with two output changes, in both orders of the keys of the
\* output_changes object of the file
TwoOutputs ==
    {<< <<n[1], [actions |-> {"create"}, sensitive |-> FALSE, before |-> None,
                 after |-> Letters("p")]>>,
        <<n[2], [actions |-> {"update"}, sensitive |-> s, before |-> Letters("q"),
                 after |-> Letters("p")]>> >> :
        n \in {<<"alpha", "endpoint">>, <<"endpoint", "alpha">>}, s \in BOOLEAN}
TwoOutputDocs ==
    {Document(<<KindChange(1, <<{"create"}, "name">>)>>, ocs) : ocs \in TwoOutputs}

\* documents with one resource change holding an attribute flagged sensitive
SecretValues == {"s", "t"}
Secret(present, value) ==
    IF present
    THEN Attrs([k \in {"name", "password"} |->
                  IF k = "name" THEN Letters("x") ELSE Letters(value)])
    ELSE Attrs([k \in {"name"} |-> Letters("x")])
SensitiveFlags(flag) == [k \in {"password"} |-> flag]

SensitiveDocs ==
    {Document(<<RawChange(Address(1), a, Secret(pb, vb), Secret(pa, va),
                          SensitiveFlags(fb), SensitiveFlags(fa), EmptyMap)>>,
              <<>>) :
        a \in {{"create"}, {"update"}, {"delete"}, {"create", "delete"}},
        pb \in BOOLEAN, pa \in BOOLEAN, vb \in SecretValues, va \in SecretValues,
        fb \in BOOLEAN, fa \in BOOLEAN}

\* documents with one replaced resource and its replace_paths
MaxPaths == 3         \* entries of replace_paths
Paths == {<<>>, <<"id">>, <<"name">>, <<"tags">>, <<"tags", "Name">>}
ReplaceDocs ==
    {Document(<<[RawChange(Address(1), {"create", "delete"},
                           Attrs([k \in {"name"} |-> Letters("x")]),
                           Attrs([k \in {"name", "tags"} |->
                                    IF k = "name" THEN Letters("y") ELSE TagMap("a")]),
                           EmptyMap, EmptyMap, EmptyMap)
                   EXCEPT !.replace_paths = paths]>>, <<>>) :
        paths \in UNION {[1..n -> Paths] : n \in 0..MaxPaths}}

ReportDocs ==
    ResourceDocs \cup OutputDocs \cup TwoOutputDocs \cup SensitiveDocs
    \cup ReplaceDocs

-----------------------------------------------------------------------------
(* The run of convert_plan_to_markdown on a parsed full document *)

NotListed == [t \in {"create", "update", "replace", "delete"} |-> <<>>]

IdleTags == tag_changes = EmptyMap /\ result = EmptyMap
IdleLines == lines = <<>> /\ planned_changes = <<>>
IdleReport ==
    /\ action_counts = ZeroCounts /\ counted = <<>> /\ listed = NotListed
    /\ md_lines = <<>>
IdleCall == args = <<>> /\ returned = <<>>
IdleProcess ==
    /\ argv = <<>> /\ json_format = "" /\ exit_code = -1 /\ output_file = <<>>
    /\ stdout = ""

InitReport ==
    /\ pc = "start"
    /\ plan_data \in {parse_terraform_show_json(d) : d \in ReportDocs}
    /\ idx = 1
    /\ IdleReport /\ IdleTags /\ IdleLines
    /\ IdleCall /\ IdleProcess

\* lines 215-258 and 261-276, some resource change
Begin ==
    /\ pc = "start"
    /\ plan_data.resource_changes # <<>>
    /\ md_lines' = HeadLines(plan_data)
    /\ action_counts' = ZeroCounts
    /\ pc' = "count" /\ idx' = 1
    /\ UNCHANGED <<plan_data, counted, listed, tag_changes, result, lines,
                   planned_changes>>
    /\ UNCHANGED <<call, process>>

\* lines 215-258 and 261-265, no resource change
EarlyReturn ==
    /\ pc = "start"
    /\ plan_data.resource_changes = <<>>
    /\ md_lines' = HeadLines(plan_data) \o <<NoChangesLine>>
    /\ pc' = "done"
    /\ UNCHANGED <<plan_data, idx, action_counts, counted, listed, tag_changes,
                   result, lines, planned_changes>>
    /\ UNCHANGED <<call, process>>

\* lines 278-296, one resource change
CountStep ==
    /\ pc = "count"
    /\ idx <= Len(plan_data.resource_changes)
    /\ LET rc == plan_data.resource_changes[idx]
       IN  /\ action_counts' = CountOne(action_counts, rc)
           /\ counted' = Append(counted, Bucket(rc.actions, rc.tags_only))
    /\ idx' = idx + 1
    /\ UNCHANGED <<pc, plan_data, listed, md_lines, tag_changes, result, lines,
                   planned_changes>>
    /\ UNCHANGED <<call, process>>

\* lines 298-383
Summary ==
    /\ pc = "count"
    /\ idx > Len(plan_data.resource_changes)
    /\ md_lines' = md_lines \o SummaryLines(action_counts)
                   \o TagSummaryLines(plan_data.resource_changes, action_counts)
                   \o << <<"## Detailed Changes">>, Blank >>
    /\ pc' = "sections" /\ idx' = 1
    /\ UNCHANGED <<plan_data, action_counts, counted, listed, tag_changes, result,
                   lines, planned_changes>>
    /\ UNCHANGED <<call, process>>

\* lines 386-528, one action type
Section ==
    /\ pc = "sections"
    /\ idx <= Len(ActionTypes)
    /\ listed' = [listed EXCEPT ![ActionTypes[idx]] =
                     ResourcesForAction(ActionTypes[idx], plan_data.resource_changes)]
    /\ md_lines' = md_lines
                   \o SectionLines(plan_data.resource_changes, ActionTypes[idx])
    /\ idx' = idx + 1
    /\ UNCHANGED <<pc, plan_data, action_counts, counted, tag_changes, result,
                   lines, planned_changes>>
    /\ UNCHANGED <<call, process>>

\* lines 530-560
Outputs ==
    /\ pc = "sections"
    /\ idx > Len(ActionTypes)
    /\ md_lines' = md_lines \o OutputSection(plan_data.output_changes)
                   \o <<Footer>>
    /\ pc' = "done"
    /\ UNCHANGED <<plan_data, idx, action_counts, counted, listed, tag_changes,
                   result, lines, planned_changes>>
    /\ UNCHANGED <<call, process>>

NextReport == Begin \/ EarlyReturn \/ CountStep \/ Summary \/ Section \/ Outputs

SpecReport == InitReport /\ [][NextReport]_vars

\* the steps compute what the function computes
ReportIsConversion ==
    pc = "done" => md_lines = convert_plan_to_markdown(plan_data)

-----------------------------------------------------------------------------
(* Claims on the report *)

Range(f) == {f[i] : i \in DOMAIN f}

RECURSIVE SumOver(_, _)
SumOver(f, S) ==
    IF S = {} THEN 0
    ELSE LET x == CHOOSE y \in S : TRUE IN f[x] + SumOver(f, S \ {x})

\* the bucket b is the one the first-match precedence gives the action set a
\* and the flag t
ByPrecedence(a, t, b) ==
    LET c == "create" \in a
        d == "delete" \in a
        u == "update" \in a
        r == "read" \in a
    IN  /\ b \in Buckets
        /\ (c /\ d) => b = "replace"
        /\ b = "replace" <=> (c /\ d)
        /\ b = "create" <=> (c /\ ~d)
        /\ b = "delete" <=> (d /\ ~c)
        /\ b = "update_tags_only" <=> (u /\ ~c /\ ~d /\ t)
        /\ b = "update" <=> (u /\ ~c /\ ~d /\ ~t)
        /\ b = "read" <=> (r /\ ~c /\ ~d /\ ~u)
        /\ b = "no-op" <=> (~c /\ ~d /\ ~u /\ ~r)

\* C1: every resource change counted in the summary went to exactly one of the
\* seven buckets, the one the first-match precedence gives (create and delete:
\* replace, whatever else is present; create; delete; update with tags_only:
\* update-tags-only; update; read; otherwise no-op), for every action set and
\* flag, and the seven counts sum to the number of resource changes counted.
C1_BucketPrecedence ==
    /\ \A i \in 1..Len(counted) :
          ByPrecedence(plan_data.resource_changes[i].actions,
                       plan_data.resource_changes[i].tags_only, counted[i])
    /\ pc = "start" =>
          \A a \in ActionSets, t \in BOOLEAN :
              ByPrecedence(a, t, Bucket(a, t))
              /\ CountOne(ZeroCounts, [actions |-> a, tags_only |-> t])
                    = [b \in Buckets |-> IF b = Bucket(a, t) THEN 1 ELSE 0]
    /\ \A b \in Buckets :
          action_counts[b] = Cardinality({i \in 1..Len(counted) : counted[i] = b})
    /\ SumOver(action_counts, Buckets) = Len(counted)
    /\ (pc \in {"sections", "done"} =>
          Len(counted) = Len(plan_data.resource_changes))

C1_Witness ==
    /\ pc = "done"
    /\ Len(counted) = 2
    /\ \E i \in 1..Len(counted) :
          /\ {"create", "delete", "update", "read"}
                \subseteq plan_data.resource_changes[i].actions
          /\ counted[i] = "replace"
    /\ \E i \in 1..Len(counted) : counted[i] = "update_tags_only"

\* the documents that differ from doc only in the value of one attribute that
\* the before- or the after-sensitivity map of its resource flags
SecretVariants(doc) ==
    {parse_terraform_show_json(
        [doc EXCEPT !.resource_changes[i] =
            [@ EXCEPT !.before = IF IsDict(@) /\ k \in DOMAIN @.v
                                 THEN Dict([@.v EXCEPT ![k] = Letters(vb)]) ELSE @,
                      !.after = IF IsDict(@) /\ k \in DOMAIN @.v
                                THEN Dict([@.v EXCEPT ![k] = Letters(va)]) ELSE @]]) :
        i \in 1..Len(doc.resource_changes),
        k \in {"password"}, vb \in SecretValues, va \in SecretValues}

Flagged(rc, k) == Flag(rc.before_sensitive, k) \/ Flag(rc.after_sensitive, k)

\* C3: the report does not depend on the value of an attribute flagged in the
\* before- or the after-sensitivity map: a document that differs only in such a
\* value renders to the same report.
C3_SensitiveRedacted ==
    (pc = "done" /\ \A i \in 1..Len(plan_data.resource_changes) :
                       Flagged(plan_data.resource_changes[i], "password"))
    => \A d \in SecretVariants(plan_data) : convert_plan_to_markdown(d) = md_lines

\* the sections a resource change is listed under
SectionsOf(i) == {t \in DOMAIN listed : i \in Range(listed[t])}

\* C8: in the Detailed Changes a resource change is listed under at most one
\* section, the one of the bucket it was counted in (none for update-tags-only,
\* read and no-op), so a section lists as many resources as its bucket counts.
C8_SectionIsBucket ==
    pc = "done" =>
        /\ \A i \in 1..Len(counted) :
              /\ Cardinality(SectionsOf(i)) <= 1
              /\ SectionsOf(i) = {counted[i]} \cap DOMAIN listed
        /\ \A t \in DOMAIN listed :
              plan_data.resource_changes # <<>> =>
                  Len(listed[t]) = action_counts[t]

\* the label the claim gives an action list
ClaimedEmoji(actions) ==
    IF "create" \in actions /\ "delete" \in actions THEN "REPLACE"
    ELSE IF "create" \in actions THEN "CREATE"
    ELSE IF "delete" \in actions THEN "DELETE"
    ELSE IF "update" \in actions THEN "UPDATE"
    ELSE IF "read" \in actions THEN "READ"
    ELSE "NO-OP"

\* C9: the heading of every output change of the report carries the REPLACE
\* label when its actions hold both create and delete, and otherwise the label
\* of the precedence create, delete, update, read, else NO-OP.
C9_OutputLabel ==
    (pc = "done" /\ plan_data.resource_changes # <<>>) =>
        \A j \in 1..Len(plan_data.output_changes) :
            <<"### ", ClaimedEmoji(plan_data.output_changes[j][2].actions), " ",
              BT, plan_data.output_changes[j][1], BT>> \in Range(md_lines)

\* C10: a document with output changes renders the output-changes section and
\* then the footer as its last line, with or without resource changes.
C10_OutputsThenFooter ==
    (pc = "done" /\ plan_data.output_changes # <<>>) =>
        /\ md_lines[Len(md_lines)] = Footer
        /\ \E i \in 1..Len(md_lines) - 1 : md_lines[i] = <<"## Output Changes">>

\* C11: a non-sensitive output change whose before value equals its after value
\* is omitted from the report: no line of the report, heading or value line,
\* carries its name.
C11_UnchangedOmitted ==
    pc = "done" =>
        \A j \in 1..Len(plan_data.output_changes) :
            LET output_name == plan_data.output_changes[j][1]
                output_change == plan_data.output_changes[j][2]
            IN  (~output_change.sensitive
                 /\ output_change.before = output_change.after)
                => \A i \in 1..Len(md_lines) : output_name \notin Range(md_lines[i])

\* the lines of the report from the heading of the resource change i to the
\* rule that closes it
BlockOf(i) ==
    LET h == CHOOSE x \in 1..Len(md_lines) :
                 md_lines[x] = <<"#### ", BT, plan_data.resource_changes[i].address, BT>>
        e == CHOOSE x \in h..Len(md_lines) :
                 /\ md_lines[x] = <<"---">>
                 /\ \A y \in h..(x - 1) : md_lines[y] # <<"---">>
    IN  SubSeq(md_lines, h, e)

\* the first segments of the non-empty paths
FirstSegments(rc) ==
    {p[1] : p \in {q \in Range(rc.replace_paths) : q # <<>>}}

\* C15: a resource change with actions [create, delete] is listed under the
\* replace section only, and the first segment of each of its non-empty
\* replace_paths stands once, in lexicographic order, under 'Attributes
\* forcing replacement', before the configuration of the resource.
C15_ReplacePaths ==
    pc = "done" =>
        \A i \in 1..Len(plan_data.resource_changes) :
            plan_data.resource_changes[i].actions = {"create", "delete"} =>
                LET block == BlockOf(i)
                    firsts == FirstSegments(plan_data.resource_changes[i])
                    n == Cardinality(firsts)
                    at(x) == {j \in 1..Len(block) : block[j] = x}
                IN  /\ SectionsOf(i) = {"replace"}
                    /\ Cardinality(at(block[1])) = 1
                    /\ \A a \in firsts : Cardinality(at(<<"  - ", BT, a, BT>>)) = 1
                    /\ firsts # {} =>
                          \E t \in at(<<"**Attributes forcing replacement**:">>) :
                              /\ \A j \in 1..n :
                                    \E a \in firsts : block[t + 1 + j] = <<"  - ", BT, a, BT>>
                              /\ \A j \in 1..(n - 1) :
                                    Rank(block[t + 1 + j][3]) < Rank(block[t + 2 + j][3])
                              /\ \A c \in at(<<"**Configuration**:">>) : c > t + 1 + n

\* paths given out of order, one of two segments, one twice and one empty
C15_Witness ==
    /\ pc = "done"
    /\ plan_data.resource_changes # <<>>
    /\ plan_data.resource_changes[1].actions = {"create", "delete"}
    /\ plan_data.resource_changes[1].replace_paths
          = << <<"tags", "Name">>, <<"name">>, <<>> >>
    /\ <<"  - ", BT, "tags", BT>> \in Range(md_lines)
    /\ <<"**Configuration**:">> \in Range(md_lines)

\* the documents that differ from doc only in the order in which the entries
\* of output_changes were inserted
Reordered(doc) ==
    LET items == doc.output_changes
    IN  {[doc EXCEPT !.output_changes = [i \in 1..Len(items) |-> items[perm[i]]]] :
            perm \in Permutations(1..Len(items))}

\* C20: the report does not depend on the insertion order of the entries of a
\* mapping of the document: the names of output_changes are visited in
\* lexicographic order, so a document with the same entries inserted in
\* another order renders to the same lines.
C20_OrderIndependent ==
    pc = "done" =>
        \A d \in Reordered(plan_data) : convert_plan_to_markdown(d) = md_lines

-----------------------------------------------------------------------------
(* The run of parse_terraform_show_json, then extract_all_tag_changes *)

\* one attribute of a resource change: missing, unchanged, changed or added,
\* and marked unknown in after_unknown or not
AttrKinds == {<<"absent", FALSE>>} \cup
             ({"same", "changed", "added"} \X BOOLEAN)
AttrNames == {"name", "tags", "tags_all"}

OldValue(key) == IF key = "name" THEN Letters("x") ELSE TagMap("a")
NewValue(key) == IF key = "name" THEN Letters("y") ELSE TagMap("b")

BeforeOf(kinds) ==
    Attrs([key \in {n \in AttrNames : kinds[n][1] \in {"same", "changed"}} |->
              OldValue(key)])
AfterOf(kinds) ==
    Attrs([key \in {n \in AttrNames : kinds[n][1] # "absent"} |->
              IF kinds[key][1] = "same" THEN OldValue(key) ELSE NewValue(key)])
UnknownOf(kinds) == [key \in {n \in AttrNames : kinds[n][2]} |-> TRUE]

\* documents of one resource change of every action set and attribute kind,
\* and of one whose before or after is no mapping
AttrDocs ==
    {Document(<<RawChange(Address(1), a, BeforeOf(kinds), AfterOf(kinds),
                          EmptyMap, EmptyMap, UnknownOf(kinds))>>, <<>>) :
        a \in ActionSets, kinds \in [AttrNames -> AttrKinds]}
    \cup
    {Document(<<RawChange(Address(1), a, b[1], b[2], EmptyMap, EmptyMap,
                          EmptyMap)>>, <<>>) :
        a \in ActionSets,
        b \in {<<None, Attrs([key \in {"tags"} |-> TagMap("b")])>>,
               <<Attrs([key \in {"tags"} |-> TagMap("a")]), None>>}}

\* the tags and the tags_all of an updated resource, each before and after:
\* tags alone, tags_all mirroring tags, tags_all alone, and tags unchanged
\* under a changed tags_all
\* tags whose value is the string "None", the text str() gives the value None
NoneText == Dict([k \in {"Name"} |-> Str(<<"N", "o", "n", "e">>)])

TagsPairs == ({NoTags, TagMap("a")} \X {NoTags, TagMap("b")})
             \cup {<<TagMap("a"), TagMap("a")>>, <<TagMap("a"), TagMap("c")>>}
Unset == <<NoTags, NoTags>>
TagShapes ==
    {<<p, Unset>> : p \in TagsPairs}
    \cup {<<p, p>> : p \in {<<NoTags, TagMap("b")>>, <<TagMap("a"), TagMap("b")>>,
                             <<TagMap("a"), TagMap("c")>>}}
    \cup {<<Unset, p>> : p \in {<<NoTags, TagMap("b")>>, <<TagMap("a"), TagMap("b")>>}}
    \cup {<< <<TagMap("a"), TagMap("a")>>, <<TagMap("a"), TagMap("b")>> >>}
    \cup {<< <<NoneText, TagMap("b")>>, Unset >>}

\* a field that is empty before and after is left out of the document
TagAttrs(tags, tags_all) ==
    Attrs([key \in {f \in TagFields :
                       (IF f = "tags" THEN tags ELSE tags_all) # NoTags} |->
              IF key = "tags" THEN tags ELSE tags_all])

TagChange(i, pair, pair_all) ==
    RawChange(Address(i), {"update"}, TagAttrs(pair[1], pair_all[1]),
              TagAttrs(pair[2], pair_all[2]), EmptyMap, EmptyMap, EmptyMap)

TagDocs ==
    {Document([i \in 1..n |-> TagChange(i, ps[i][1], ps[i][2])], <<>>) :
        n \in 1..MaxTagRecords,
        ps \in [1..MaxTagRecords -> TagShapes]}

ShowDocs == AttrDocs \cup TagDocs

InitShow ==
    /\ pc = "raw"
    /\ plan_data \in ShowDocs
    /\ idx = 1
    /\ IdleReport /\ IdleTags /\ IdleLines
    /\ IdleCall /\ IdleProcess

\* lines 666-711
ParseShow ==
    /\ pc = "raw"
    /\ plan_data' = parse_terraform_show_json(plan_data)
    /\ pc' = "parsed"
    /\ UNCHANGED <<idx, action_counts, counted, listed, md_lines, tag_changes,
                   result, lines, planned_changes>>
    /\ UNCHANGED <<call, process>>

\* lines 131-140, no tags-only resource
NoTagsOnly ==
    /\ pc = "parsed"
    /\ TagsOnlyResources(plan_data.resource_changes) = <<>>
    /\ result' = EmptyMap
    /\ pc' = "done"
    /\ UNCHANGED <<plan_data, idx, action_counts, counted, listed, md_lines,
                   tag_changes, lines, planned_changes>>
    /\ UNCHANGED <<call, process>>

\* lines 131-142, some tags-only resource
Collect ==
    /\ pc = "parsed"
    /\ TagsOnlyResources(plan_data.resource_changes) # <<>>
    /\ tag_changes' = EmptyMap
    /\ pc' = "extract" /\ idx' = 1
    /\ UNCHANGED <<plan_data, action_counts, counted, listed, md_lines, result,
                   lines, planned_changes>>
    /\ UNCHANGED <<call, process>>

\* lines 145-181, one tags-only resource
ExtractStep ==
    /\ pc = "extract"
    /\ idx <= Len(TagsOnlyResources(plan_data.resource_changes))
    /\ tag_changes' =
          AddResource(tag_changes, TagsOnlyResources(plan_data.resource_changes)[idx])
    /\ idx' = idx + 1
    /\ UNCHANGED <<pc, plan_data, action_counts, counted, listed, md_lines, result,
                   lines, planned_changes>>
    /\ UNCHANGED <<call, process>>

\* lines 183-210
FlattenStep ==
    /\ pc = "extract"
    /\ idx > Len(TagsOnlyResources(plan_data.resource_changes))
    /\ result' = Flatten(tag_changes, Len(TagsOnlyResources(plan_data.resource_changes)))
    /\ pc' = "done"
    /\ UNCHANGED <<plan_data, idx, action_counts, counted, listed, md_lines,
                   tag_changes, lines, planned_changes>>
    /\ UNCHANGED <<call, process>>

NextShow == ParseShow \/ NoTagsOnly \/ Collect \/ ExtractStep \/ FlattenStep

SpecShow == InitShow /\ [][NextShow]_vars

\* the steps compute what the function computes
ExtractIsFunction ==
    pc = "done" => result = extract_all_tag_changes(plan_data.resource_changes)

-----------------------------------------------------------------------------
(* Claims on the full-document parser and the tag aggregate *)

\* the attribute differs between before and after
Differs(rc, key) ==
    \/ key \in DOMAIN rc.before.v /\ key \notin DOMAIN rc.after.v
    \/ key \notin DOMAIN rc.before.v /\ key \in DOMAIN rc.after.v
    \/ /\ key \in DOMAIN rc.before.v /\ key \in DOMAIN rc.after.v
       /\ rc.before.v[key] # rc.after.v[key]

\* the keys that differ, the ones marked unknown-at-apply left out
KnownDiffering(rc) ==
    {key \in DOMAIN rc.before.v \cup DOMAIN rc.after.v :
        Differs(rc, key) /\ ~(key \in DOMAIN rc.after_unknown
                              /\ rc.after_unknown[key])}

OnlyTagsDiffer(rc) ==
    /\ IsDict(rc.before) /\ IsDict(rc.after)
    /\ KnownDiffering(rc) # {}
    /\ KnownDiffering(rc) \subseteq {"tags", "tags_all"}

Records == TagsOnlyResources(plan_data.resource_changes)

\* the tag mapping of a record: its tags pair, and its tags_all pair only when
\* tags is absent or empty before and after
TagsIn(x, field) == IF field \in DOMAIN x.v THEN x.v[field] ELSE NoTags
ChosenField(rc) ==
    IF TagsIn(rc.before, "tags") # NoTags \/ TagsIn(rc.after, "tags") # NoTags
    THEN "tags" ELSE "tags_all"
ValueIn(tags, k) == IF k \in DOMAIN tags.v THEN tags.v[k] ELSE None
\* the before and after value of tag k in a record
Transition(rc, k) ==
    <<ValueIn(TagsIn(rc.before, ChosenField(rc)), k),
      ValueIn(TagsIn(rc.after, ChosenField(rc)), k)>>

TagKeys == {"Name"}
TagValues == {Letters("a"), Letters("b"), Letters("c")}
Having(k, a, b) == {i \in 1..Len(Records) : Transition(Records[i], k) = <<a, b>>}

C5_CommonMeansAll ==
    pc = "done" =>
        \A k \in DOMAIN result :
            result[k].is_common =>
                \A i \in 1..Len(Records) :
                    Transition(Records[i], k) = <<result[k].before, result[k].after>>

RECURSIVE CountSum(_)
CountSum(changes) ==
    IF changes = <<>> THEN 0 ELSE Head(changes).count + CountSum(Tail(changes))

\* C6: one tag namespace counts per record, so the counts of the groupings of
\* a tag key never sum to more than the number of tags-only records read.
C6_OneNamespace ==
    pc \in {"extract", "done"} =>
        \A k \in DOMAIN tag_changes : CountSum(tag_changes[k]) <= idx - 1

\* the tag fields of a record that are read: tags, and tags_all too when the
\* record has no tags before
FieldsRead(rc) ==
    IF TagsIn(rc.before, "tags") # NoTags THEN {"tags"} ELSE {"tags", "tags_all"}
PairIn(rc, field, k) ==
    <<ValueIn(TagsIn(rc.before, field), k), ValueIn(TagsIn(rc.after, field), k)>>
\* the (before, after) pairs of the records that change tag k
Changing(k) ==
    {pair \in UNION {{PairIn(Records[i], f, k) : f \in FieldsRead(Records[i])} :
                        i \in 1..Len(Records)} : pair[1] # pair[2]}

\* the groupings of tag k in the aggregate: their stored pairs, their number
GroupPairs(k) ==
    IF result[k].multiple
    THEN {<<result[k].changes[i].before, result[k].changes[i].after>> :
             i \in 1..Len(result[k].changes)}
    ELSE {<<result[k].before, result[k].after>>}
GroupCount(k) == IF result[k].multiple THEN Len(result[k].changes) ELSE 1

\* C21: the changes of a tag key are grouped by distinct (before, after) pair:
\* the aggregate holds one grouping per distinct pair of the tags-only
\* records, an absent value being distinct from every present one, and the
\* stored pair of a grouping is the pair of every record counted in it.
C21_DistinctPairs ==
    pc = "done" =>
        \A k \in TagKeys :
            Changing(k) # {} =>
                /\ k \in DOMAIN result
                /\ GroupPairs(k) = Changing(k)
                /\ GroupCount(k) = Cardinality(Changing(k))

-----------------------------------------------------------------------------
(* The run of parse_terraform_json_lines *)

\* a line of the file: blank, malformed (json.loads rejects it), scalar
\* (json.loads gives a value that is no dict, as for 42), or an event
Line(kind, type, level, addr, action) ==
    [kind |-> kind, type |-> type, level |-> level, addr |-> addr,
     action |-> action, resource_type |-> "aws_instance", reason |-> "",
     terraform |-> "1.5.0", summary |-> "Invalid reference",
     code |-> IF level = "error" THEN "resource x" ELSE "",
     document |-> <<>>]

\* a line holding a whole plan document: an object with the keys
\* terraform_version and resource_changes, and neither @level nor type
DocumentLine(doc) == [Line("event", "", "", "", "") EXCEPT !.document = <<doc>>]

LineAddrs == {"aws_instance.a", "aws_instance.b"}
LineActions == {"create", "update", "delete", "read", "replace"}

LineSet ==
    {Line("blank", "", "", "", ""), Line("malformed", "", "", "", ""),
     Line("scalar", "", "", "", ""),
     Line("event", "version", "info", "", ""),
     Line("event", "diagnostic", "error", "", ""),
     Line("event", "resource_drift", "info", "aws_instance.a", "update"),
     Line("event", "apply_start", "info", "aws_instance.a", "create")}
    \cup {Line("event", "planned_change", "info", addr, action) :
             addr \in LineAddrs, action \in LineActions}

\* lines 577-582
EmptyPlan ==
    [terraform_version |-> "None", has_version |-> TRUE, resource_changes |-> <<>>,
     output_changes |-> <<>>, errors |-> <<>>]

\* lines 600-601: the errors after the event
ErrorsAfter(errors, event) ==
    IF event.level = "error" /\ event.type = "diagnostic"
    THEN Append(errors, [address |-> event.addr, summary |-> event.summary,
                         code |-> event.code, filename |-> "main.tf",
                         start_line |-> "3"])
    ELSE errors

\* lines 604-605: the version after the event
VersionAfter(version, event) ==
    IF event.type = "version" THEN event.terraform ELSE version

\* lines 619-655: planned_changes after the event
ChangesAfter(changes, event) ==
    IF event.type = "planned_change" /\ event.action # "read"
    THEN Store(changes, ResourceChange(event))
    ELSE changes

\* lines 596-597: event.get on a value that is no dict raises AttributeError,
\* which the except clause of line 657 does not catch
RaisesAttributeError(line) == line.kind = "scalar"

\* lines 577-663: what the call comes to, <<"returned", plan_data>> or
\* <<"raised", plan_data so far>>
RECURSIVE ReadLines(_, _, _)
ReadLines(ls, plan, changes) ==
    IF ls = <<>> THEN <<"returned", [plan EXCEPT !.resource_changes = changes]>>
    ELSE LET line == Head(ls)
         IN  IF line.kind \in {"blank", "malformed"}
             THEN ReadLines(Tail(ls), plan, changes)
             ELSE IF RaisesAttributeError(line) THEN <<"raised", plan>>
             ELSE ReadLines(Tail(ls),
                            [plan EXCEPT !.errors = ErrorsAfter(@, line),
                                         !.terraform_version = VersionAfter(@, line)],
                            ChangesAfter(changes, line))

parse_terraform_json_lines(ls) == ReadLines(ls, EmptyPlan, <<>>)

InitLines ==
    /\ pc = "read"
    /\ lines \in UNION {[1..n -> LineSet] : n \in 0..MaxLines}
    /\ plan_data = EmptyPlan
    /\ planned_changes = <<>>
    /\ idx = 1
    /\ IdleReport /\ IdleTags
    /\ IdleCall /\ IdleProcess

\* lines 590-593: a blank line
SkipBlank ==
    /\ pc = "read" /\ idx <= Len(lines)
    /\ lines[idx].kind = "blank"
    /\ idx' = idx + 1
    /\ UNCHANGED <<pc, plan_data, action_counts, counted, listed, md_lines,
                   tag_changes, result, lines, planned_changes>>
    /\ UNCHANGED <<call, process>>

\* lines 595-596 and 657-658: a line json.loads rejects
SkipMalformed ==
    /\ pc = "read" /\ idx <= Len(lines)
    /\ lines[idx].kind = "malformed"
    /\ idx' = idx + 1
    /\ UNCHANGED <<pc, plan_data, action_counts, counted, listed, md_lines,
                   tag_changes, result, lines, planned_changes>>
    /\ UNCHANGED <<call, process>>

\* lines 596-597: a line that is JSON but no dict; the call ends with the
\* AttributeError
RaiseOnScalar ==
    /\ pc = "read" /\ idx <= Len(lines)
    /\ RaisesAttributeError(lines[idx])
    /\ pc' = "raised"
    /\ UNCHANGED <<plan_data, idx, action_counts, counted, listed, md_lines,
                   tag_changes, result, lines, planned_changes>>
    /\ UNCHANGED <<call, process>>

\* lines 595-655: an event
ReadEvent ==
    /\ pc = "read" /\ idx <= Len(lines)
    /\ lines[idx].kind = "event"
    /\ plan_data' = [plan_data EXCEPT
                        !.errors = ErrorsAfter(@, lines[idx]),
                        !.terraform_version = VersionAfter(@, lines[idx])]
    /\ planned_changes' = ChangesAfter(planned_changes, lines[idx])
    /\ idx' = idx + 1
    /\ UNCHANGED <<pc, action_counts, counted, listed, md_lines, tag_changes,
                   result, lines>>
    /\ UNCHANGED <<call, process>>

\* lines 660-663
FinishLines ==
    /\ pc = "read" /\ idx > Len(lines)
    /\ plan_data' = [plan_data EXCEPT !.resource_changes = planned_changes]
    /\ pc' = "parsed"
    /\ UNCHANGED <<idx, action_counts, counted, listed, md_lines, tag_changes,
                   result, lines, planned_changes>>
    /\ UNCHANGED <<call, process>>

NextLines == SkipBlank \/ SkipMalformed \/ RaiseOnScalar \/ ReadEvent \/ FinishLines

SpecLines == InitLines /\ [][NextLines]_vars

\* the steps compute what the function computes
LinesIsFunction ==
    /\ pc = "parsed" => parse_terraform_json_lines(lines) = <<"returned", plan_data>>
    /\ pc = "raised" => parse_terraform_json_lines(lines) = <<"raised", plan_data>>

-----------------------------------------------------------------------------
(* Claims on the line-oriented parser *)

\* the lines read so far that are planned_change events with another action
\* than read
PlannedSoFar ==
    {i \in 1..(idx - 1) : /\ lines[i].kind = "event"
                          /\ lines[i].type = "planned_change"
                          /\ lines[i].action # "read"}
LatestFor(addr) ==
    CHOOSE i \in PlannedSoFar :
        /\ lines[i].addr = addr
        /\ \A j \in PlannedSoFar : lines[j].addr = addr => j <= i

\* the records the parser holds: the final resource_changes once it is done
Held == IF pc = "parsed" THEN plan_data.resource_changes ELSE planned_changes

\* C7: the parser holds exactly one record per address of the planned_change
\* lines read whose action is not read, the record carries the single action
\* of the latest such line, and a planned_change line with action read
\* changes nothing.
C7_LastWriteWins ==
    /\ {Held[i].address : i \in 1..Len(Held)} = {lines[i].addr : i \in PlannedSoFar}
    /\ \A i, j \in 1..Len(Held) : Held[i].address = Held[j].address => i = j
    /\ \A i \in 1..Len(Held) :
          /\ Held[i].actions = {lines[LatestFor(Held[i].address)].action}
          /\ ~Held[i].tags_only

C7_Witness ==
    /\ pc = "parsed"
    /\ Len(lines) = 3
    /\ lines[1].type = "planned_change" /\ lines[1].action = "create"
    /\ lines[2].type = "planned_change" /\ lines[2].action = "update"
    /\ lines[2].addr = lines[1].addr
    /\ lines[3].type = "planned_change" /\ lines[3].action = "read"
    /\ lines[3].addr = lines[1].addr
    /\ Len(plan_data.resource_changes) = 1
    /\ plan_data.resource_changes[1].actions = {"update"}

\* the input without its line i
Without(ls, i) == SubSeq(ls, 1, i - 1) \o SubSeq(ls, i + 1, Len(ls))

\* the line cannot be parsed as a structured record
NotARecord(line) == line.kind \in {"malformed", "scalar"}

\* C16: a line that cannot be parsed as a structured record is skipped and
\* the parse does not fail: the call returns, and returns what it returns for
\* the input without that line.
C16_SkipsUnparsable ==
    pc \in {"parsed", "raised"} =>
        \A i \in 1..Len(lines) :
            NotARecord(lines[i]) =>
                /\ pc = "parsed"
                /\ parse_terraform_json_lines(Without(lines, i))
                      = <<"returned", plan_data>>

-----------------------------------------------------------------------------
(* The calls of format_value and of format_change *)

MaxStrLen == 150      \* characters of a string value
MaxListLen == 7       \* elements of a list value

Digits == <<"0", "1", "2", "3", "4", "5", "6", "7", "8", "9">>

\* the string of n characters that counts its positions
Text(n) == [i \in 1..n |-> Digits[(i % 10) + 1]]

Strings == {Str(Text(n)) : n \in 0..MaxStrLen}

Scalars ==
    {None, Bool(TRUE), Bool(FALSE), Num(0), Num(1), Str(<<>>), Str(<<" ">>),
     Letters("x"), Letters("y")}

Objects ==
    {Dict(EmptyMap), Dict([k \in {"name"} |-> Letters("x")]),
     Dict([k \in {"id", "name"} |-> Num(1)]),
     Dict([k \in {"id", "name", "tags"} |-> Dict(EmptyMap)])}

\* the elements of the short lists
Elements ==
    {None, Str(<<>>), Letters("x"), Num(1), Bool(TRUE), List(<<>>),
     List(<<Letters("x"), Str(<<>>)>>), List(<<Str(<<>>), Letters("y")>>),
     Dict(EmptyMap), Dict([k \in {"name"} |-> Letters("x")])}

\* every list of up to two elements, and the lists 1..n of up to MaxListLen
ShortLists == {List(l) : l \in UNION {[1..n -> Elements] : n \in 0..2}}
CountingLists == {List([i \in 1..n |-> Num(i)]) : n \in 3..MaxListLen}

Values == Scalars \cup Strings \cup Objects \cup ShortLists \cup CountingLists

\* the before and after values of an attribute
ChangeValues ==
    {None, List(<<>>), Dict(EmptyMap), Str(<<>>), Letters("x"), Letters("y"),
     Bool(TRUE), Bool(FALSE), Num(0), Num(1), Str(Text(StrLimit + 1)),
     List(<<Str(<<>>)>>), List(<<Letters("x")>>), List(<<None, Str(<<>>)>>),
     Dict([k \in {"name"} |-> Letters("x")]),
     Dict([k \in {"name"} |-> Letters("y")])}

ValueCalls == {<<"format_value", v>> : v \in Values}
ChangeCalls ==
    {<<"format_change", b, a, key>> :
        b \in ChangeValues, a \in ChangeValues, key \in {"name", "tags"}}

InitFormat ==
    /\ pc = "call"
    /\ args \in ValueCalls \cup ChangeCalls
    /\ returned = <<>>
    /\ plan_data = EmptyPlan /\ idx = 1
    /\ IdleReport /\ IdleTags /\ IdleLines /\ IdleProcess

\* lines 31-58, with indent = 0
CallFormatValue ==
    /\ pc = "call" /\ args[1] = "format_value"
    /\ returned' = format_value(args[2])
    /\ pc' = "returned"
    /\ UNCHANGED <<plan_data, idx, action_counts, counted, listed, md_lines,
                   tag_changes, result, lines, planned_changes, args, process>>

\* lines 61-89, with indent = 1
CallFormatChange ==
    /\ pc = "call" /\ args[1] = "format_change"
    /\ returned' = format_change(args[2], args[3], args[4])
    /\ pc' = "returned"
    /\ UNCHANGED <<plan_data, idx, action_counts, counted, listed, md_lines,
                   tag_changes, result, lines, planned_changes, args, process>>

NextFormat == CallFormatValue \/ CallFormatChange

SpecFormat == InitFormat /\ [][NextFormat]_vars

-----------------------------------------------------------------------------
(* Claims on the formatters *)

ValueReturned == pc = "returned" /\ args[1] = "format_value"
ChangeReturned == pc = "returned" /\ args[1] = "format_change"

\* null and the empty sequence or mapping count as absent
CountsAsAbsent(x) == x = None \/ x = List(<<>>) \/ x = Dict(EmptyMap)

Formatted(x) == Strip(format_value(x))
AddedLine(key, after) == <<"  - **", key, "**: ">> \o Formatted(after)
StruckLine(key, before, after) ==
    <<"  - **", key, "**: ~~">> \o Formatted(before) \o <<"~~ -> ">>
    \o Formatted(after)

C13_StringRendering ==
    (ValueReturned /\ args[2].t = "str") =>
        LET s == args[2].v
        IN  /\ Len(s) = 0 => returned = <<>>
            /\ Len(s) > 100 =>
                  returned = <<BT>> \o [i \in 1..97 |-> s[i]] \o <<".", ".", ".", BT>>
            /\ (Len(s) >= 1 /\ Len(s) <= 100) => returned = <<BT>> \o s \o <<BT>>
            /\ Len(s) > 0 => /\ returned[1] = BT /\ returned[Len(returned)] = BT
                             /\ Len(returned) - 2 <= 100

\* a string of 150 characters
C13_Witness ==
    /\ ValueReturned
    /\ args[2].t = "str" /\ Len(args[2].v) = 150
    /\ Len(returned) = 102 /\ returned[98] = "7" /\ returned[99] = "."

\* the claimed text of a sequence or mapping, with the summary of a long
\* sequence and the treatment of the formatted elements as parameters
SequenceText(value, summary, element(_)) ==
    IF value.t = "list"
    THEN IF Len(value.v) = 0 THEN <<>>
         ELSE IF Len(value.v) > 5
         THEN <<summary, ToString(Len(value.v)), " items">>
         ELSE Join([i \in 1..Len(value.v) |-> element(value.v[i])], <<",", " ">>)
    ELSE IF DOMAIN value.v = {} THEN <<>>
         ELSE <<"Object with ", ToString(Cardinality(DOMAIN value.v)), " properties">>

\* C14: format_value on a sequence: empty gives the empty string, more than 5
\* elements "Sequence with N items", 1 to 5 elements the elements formatted
\* recursively and joined with ", "; on a mapping: empty gives the empty
\* string, otherwise "Object with N properties".
C14_SequenceText ==
    (ValueReturned /\ args[2].t \in {"list", "dict"}) =>
        returned = SequenceText(args[2], "Sequence with ", format_value)

\* C14 as amended: a sequence of more than 5 elements gives "List with N
\* items", and the formatted elements of a shorter one are stripped of the
\* blanks around them before they are joined.
C14_ListText ==
    (ValueReturned /\ args[2].t \in {"list", "dict"}) =>
        returned = SequenceText(args[2], "List with ", Formatted)

\* a list of six elements
C14_Witness ==
    /\ ValueReturned
    /\ args[2].t = "list" /\ Len(args[2].v) = 6
    /\ returned = <<"List with ", "6", " items">>

-----------------------------------------------------------------------------
(* detect_json_format, validate_file_path and main *)

\* line 717: f.readline().strip(), the empty string for an empty file
FirstLine(ls) == IF ls = <<>> THEN Line("blank", "", "", "", "") ELSE ls[1]

\* lines 714-730; "TypeError" when the `in` of line 722 is applied to a number
\* or to null, which the except clause of line 727 does not catch
detect_json_format(ls) ==
    LET first_line == FirstLine(ls)
    IN  IF first_line.kind \in {"blank", "malformed"} THEN "unknown"
        ELSE IF first_line.kind = "scalar" THEN "TypeError"
        ELSE IF first_line.level # "" \/ first_line.type # "" THEN "streaming"
        ELSE IF first_line.document # <<>> THEN "show"
        ELSE "unknown"

\* a path: whether its text holds "..", as a segment or inside a name, its
\* suffix, what it names in the file system, and whether open(path, 'w') succeeds
PathDots == {"none", "segment", "name"}
Suffixes == {".json", ".md", ".txt"}
PathKinds == {"missing", "file", "dir"}
APath(dots, suffix, kind, writable) ==
    [dots |-> dots, suffix |-> suffix, kind |-> kind, writable |-> writable]

\* lines 733-773
validate_file_path(file_path, must_exist) ==
    IF file_path.dots # "none" THEN "ValueError"
    ELSE IF file_path.suffix # ".md" /\ file_path.suffix # ".json" THEN "ValueError"
    ELSE IF must_exist /\ file_path.kind = "missing" THEN "ValueError"
    ELSE IF must_exist /\ file_path.kind # "file" THEN "ValueError"
    ELSE IF ~must_exist /\ file_path.kind # "missing" /\ file_path.kind = "dir"
    THEN "ValueError"
    ELSE "resolved"

\* line 820
HandlerExit == 1

\* line 669: json.load takes a file that is one JSON value and white space
NonBlank(ls) == SelectSeq(ls, LAMBDA l : l.kind # "blank")
Loads(ls) == Len(NonBlank(ls)) = 1 /\ NonBlank(ls)[1].kind # "malformed"

\* the files main reads
MaxMainLines == 2     \* lines of a file given to main
MainDocs ==
    {Document(<<>>, <<>>),
     Document(<<KindChange(1, <<{"create"}, "name">>)>>, <<>>),
     Document(<<KindChange(1, <<{"update"}, "tag">>)>>, <<>>)}
MainLines ==
    {Line("blank", "", "", "", ""), Line("malformed", "", "", "", ""),
     Line("scalar", "", "", "", ""), Line("event", "", "", "", ""),
     Line("event", "version", "info", "", ""),
     Line("event", "planned_change", "info", "aws_instance.a", "create")}
    \cup {DocumentLine(d) : d \in MainDocs}
MainFiles == UNION {[1..n -> MainLines] : n \in 0..MaxMainLines}

InputPaths == {APath(d, x, k, TRUE) : d \in PathDots, x \in Suffixes, k \in PathKinds}
OutputPaths ==
    {APath(d, x, k, w) : d \in PathDots, x \in Suffixes, k \in PathKinds,
                         w \in BOOLEAN}
GoodInput == APath("none", ".json", "file", TRUE)
GoodOutput == APath("none", ".md", "missing", TRUE)
OneFile == <<Line("event", "version", "info", "", ""),
             Line("event", "planned_change", "info", "aws_instance.a", "create")>>

\* the encoding of sys.stdout: print raises UnicodeEncodeError on a character
\* it cannot encode, as the signs of lines 801 and 814 under ascii
Encodings == {"utf-8", "ascii"}
PrintsSigns == stdout = "utf-8"

\* every pair of paths on one file, every file under an input path main
\* accepts, and command lines short of a path
InitMain ==
    /\ pc = "main"
    /\ \/ /\ argv \in {<<i, o>> : i \in InputPaths, o \in OutputPaths}
          /\ lines = IF argv[1].kind = "file" THEN OneFile ELSE <<>>
       \/ /\ argv \in {<<i, o>> : i \in {GoodInput, [GoodInput EXCEPT !.suffix = ".md"]},
                                  o \in {GoodOutput, [GoodOutput EXCEPT !.writable = FALSE]}}
          /\ lines \in MainFiles
       \/ /\ argv \in {<<>>, <<GoodInput>>}
          /\ lines = OneFile
    /\ stdout \in Encodings
    /\ json_format = "" /\ exit_code = -1 /\ output_file = <<>>
    /\ plan_data = EmptyPlan /\ planned_changes = <<>> /\ idx = 1
    /\ IdleReport /\ IdleTags /\ IdleCall

Rest == <<idx, action_counts, counted, listed, tag_changes, result, lines,
          planned_changes, call, argv, stdout>>

\* lines 778-780
Usage ==
    /\ pc = "main" /\ Len(argv) < 2
    /\ exit_code' = 1 /\ pc' = "exited"
    /\ UNCHANGED <<plan_data, md_lines, json_format, output_file, Rest>>

\* lines 782-789, a path raises ValueError
RejectPaths ==
    /\ pc = "main" /\ Len(argv) = 2
    /\ \/ validate_file_path(argv[1], TRUE) = "ValueError"
       \/ validate_file_path(argv[2], FALSE) = "ValueError"
    /\ exit_code' = 1 /\ pc' = "exited"
    /\ UNCHANGED <<plan_data, md_lines, json_format, output_file, Rest>>

\* lines 782-786, both paths resolve
AcceptPaths ==
    /\ pc = "main" /\ Len(argv) = 2
    /\ validate_file_path(argv[1], TRUE) = "resolved"
    /\ validate_file_path(argv[2], FALSE) = "resolved"
    /\ pc' = "detect"
    /\ UNCHANGED <<plan_data, md_lines, json_format, exit_code, output_file, Rest>>

\* line 794
Detect ==
    /\ pc = "detect" /\ detect_json_format(lines) # "TypeError"
    /\ json_format' = detect_json_format(lines)
    /\ pc' = "parse"
    /\ UNCHANGED <<plan_data, md_lines, exit_code, output_file, Rest>>

\* lines 794 and 816-820
DetectRaises ==
    /\ pc = "detect" /\ detect_json_format(lines) = "TypeError"
    /\ exit_code' = HandlerExit /\ pc' = "exited"
    /\ UNCHANGED <<plan_data, md_lines, json_format, output_file, Rest>>

\* lines 796-798
ParseShowFile ==
    /\ pc = "parse" /\ json_format = "show" /\ Loads(lines)
    /\ plan_data' = parse_terraform_show_json(NonBlank(lines)[1].document[1])
    /\ pc' = "render"
    /\ UNCHANGED <<md_lines, json_format, exit_code, output_file, Rest>>

\* lines 798 and 816-820: json.load raises on text after the document
ParseShowRaises ==
    /\ pc = "parse" /\ json_format = "show" /\ ~Loads(lines)
    /\ exit_code' = HandlerExit /\ pc' = "exited"
    /\ UNCHANGED <<plan_data, md_lines, json_format, output_file, Rest>>

\* lines 799-803
ParseLinesFile ==
    /\ pc = "parse" /\ json_format # "show" /\ PrintsSigns
    /\ parse_terraform_json_lines(lines)[1] = "returned"
    /\ plan_data' = parse_terraform_json_lines(lines)[2]
    /\ pc' = "render"
    /\ UNCHANGED <<md_lines, json_format, exit_code, output_file, Rest>>

\* lines 801 or 803, and 816-820: the print of the note raises, or the parser
ParseLinesRaises ==
    /\ pc = "parse" /\ json_format # "show"
    /\ ~PrintsSigns \/ parse_terraform_json_lines(lines)[1] = "raised"
    /\ exit_code' = HandlerExit /\ pc' = "exited"
    /\ UNCHANGED <<plan_data, md_lines, json_format, output_file, Rest>>

\* line 807
Render ==
    /\ pc = "render"
    /\ md_lines' = convert_plan_to_markdown(plan_data)
    /\ pc' = "write"
    /\ UNCHANGED <<plan_data, json_format, exit_code, output_file, Rest>>

\* lines 811-812
WriteOutput ==
    /\ pc = "write" /\ argv[2].writable
    /\ output_file' = md_lines
    /\ pc' = "written"
    /\ UNCHANGED <<plan_data, md_lines, json_format, exit_code, Rest>>

\* lines 811 and 816-820: open raises OSError
WriteRaises ==
    /\ pc = "write" /\ ~argv[2].writable
    /\ exit_code' = HandlerExit /\ pc' = "exited"
    /\ UNCHANGED <<plan_data, md_lines, json_format, output_file, Rest>>

\* line 814 and the return of main
Return ==
    /\ pc = "written" /\ PrintsSigns
    /\ exit_code' = 0 /\ pc' = "exited"
    /\ UNCHANGED <<plan_data, md_lines, json_format, output_file, Rest>>

\* lines 814 and 816-820: the print of the success message raises
ReportRaises ==
    /\ pc = "written" /\ ~PrintsSigns
    /\ exit_code' = HandlerExit /\ pc' = "exited"
    /\ UNCHANGED <<plan_data, md_lines, json_format, output_file, Rest>>

NextMain ==
    \/ Usage \/ RejectPaths \/ AcceptPaths \/ Detect \/ DetectRaises
    \/ ParseShowFile \/ ParseShowRaises \/ ParseLinesFile \/ ParseLinesRaises
    \/ Render \/ WriteOutput \/ WriteRaises \/ Return \/ ReportRaises

SpecMain == InitMain /\ [][NextMain]_vars

-----------------------------------------------------------------------------
(* Claims on the detector, the path validation and main *)

\* the first line of the file that is not blank, a blank line if there is none
FirstNonBlank(ls) ==
    IF NonBlank(ls) = <<>> THEN Line("blank", "", "", "", "") ELSE NonBlank(ls)[1]

\* the class the claim gives a file
ClaimedFormat(ls) ==
    LET l == FirstNonBlank(ls)
    IN  IF l.kind = "event" /\ (l.level # "" \/ l.type # "") THEN "streaming"
        ELSE IF l.kind = "event" /\ l.document # <<>> THEN "show"
        ELSE "unknown"

\* C17: the detector decides on the first non-blank line of the file:
\* streaming when it parses and holds @level or type, else show when it parses
\* and holds terraform_version or resource_changes, else unknown, whatever
\* blank lines lead the file; and main parses a file of unknown format as a
\* streaming one.
C17_FirstNonBlank ==
    /\ pc \in {"parse", "render", "write", "written"} =>
          json_format = ClaimedFormat(lines)
    /\ (pc = "render" /\ json_format \in {"unknown", "streaming"}) =>
          plan_data = parse_terraform_json_lines(lines)[2]

\* the position of a step of main
StepRank(p) ==
    CASE p = "main" -> 0 [] p = "detect" -> 1 [] p = "parse" -> 2
      [] p = "render" -> 3 [] p = "write" -> 4 [] p = "written" -> 5
      [] p = "exited" -> 6

PathsResolve ==
    /\ Len(argv) = 2
    /\ validate_file_path(argv[1], TRUE) = "resolved"
    /\ validate_file_path(argv[2], FALSE) = "resolved"

\* what the parser main chose returns on the file
ParsedFile ==
    IF json_format = "show"
    THEN parse_terraform_show_json(NonBlank(lines)[1].document[1])
    ELSE parse_terraform_json_lines(lines)[2]

\* C18: main validates the paths, detects the format, parses, renders and
\* writes, in this order: a path that fails validation ends the process with
\* code 1 before the detector or a parser has run, the output file is written
\* only when parsing and rendering have completed, a run that ends with code
\* 1 has written no output file, and code 0 comes only after the write.
C18_StepOrder ==
    /\ exit_code \in {-1, 0, 1}
    /\ exit_code = -1 <=> pc # "exited"
    /\ ~PathsResolve =>
          /\ pc \in {"main", "exited"}
          /\ json_format = "" /\ plan_data = EmptyPlan /\ md_lines = <<>>
          /\ exit_code \in {-1, 1}
    /\ StepRank(pc) \in 2..5 => json_format \in {"show", "streaming", "unknown"}
    /\ StepRank(pc) \in 3..5 => plan_data = ParsedFile
    /\ StepRank(pc) \in 4..5 => md_lines = convert_plan_to_markdown(plan_data)
    /\ output_file # <<>> =>
          /\ pc \in {"written", "exited"}
          /\ json_format # "" /\ plan_data = ParsedFile
          /\ md_lines = convert_plan_to_markdown(plan_data)
          /\ output_file = md_lines
    /\ exit_code = 1 => output_file = <<>>
    /\ exit_code = 0 => output_file # <<>>

\* the rules the claim gives for the two paths
InputOk(p) == p.kind = "file" /\ p.dots # "segment" /\ p.suffix = ".json"
OutputOk(p) ==
    p.kind # "dir" /\ p.dots # "segment" /\ p.suffix \in {".json", ".md"}

\* C19: main accepts an input path only if it exists, is a regular file, has
\* no parent-directory segment and has the .json extension, and an output
\* path only if it is no existing directory, has a .json or .md extension and
\* has no such segment; with any other path main exits with code 1.
C19_PathRules ==
    Len(argv) = 2 =>
        /\ pc = "detect" => InputOk(argv[1]) /\ OutputOk(argv[2])
        /\ ~(InputOk(argv[1]) /\ OutputOk(argv[2])) =>
              /\ pc \in {"main", "exited"}
              /\ pc = "exited" => exit_code = 1

====
